---- MODULE Spec2Model ----
(***************************************************************************)
(* Model of the two compatibility headers of the repository:               *)
(*   src/bash/wasm_compat.h   (the shell header)                           *)
(*   src/nginx/wasm_compat.h  (the server header)                          *)
(*                                                                         *)
(* A translation unit is preprocessed top to bottom.  Its state is the     *)
(* macro table, the typedefs and functions defined so far and the set of   *)
(* compile errors.  Foreign headers (the sysroot, the host program's  *)
(* configuration header) issue #define directives; the two headers of the  *)
(* repository are included any number of times at any point.  Each of the  *)
(* two headers includes sysroot headers itself (<sys/stat.h>, <sched.h>,   *)
(* <string.h>): what those define depends on the sysroot of the build and  *)
(* lands in the middle of the inclusion, before the #ifndef tests that     *)
(* follow.  After the translation unit is compiled, the program invokes    *)
(* the affinity macros, the crypt stub and the stat aliases in effect.     *)
(***************************************************************************)
EXTENDS Integers, Sequences, FiniteSets, TLC

VARIABLES
    macros,                 \* macro table: name -> [def, body]
    types,                  \* typedefs declared: [name, by], by = "header" or "sysroot"
    funcs,                  \* function names defined by the headers
    errors,                 \* types and functions defined twice (a compile
                            \* error each)
    sysroot,                \* the sysroot of the build
    sysinc,                 \* sysroot headers included so far (their guards)
    sizeof_unsigned_long,   \* sizeof(unsigned long) of the target
    phase,                  \* "cpp" while preprocessing, "run" afterwards
    ndefines,               \* number of foreign #define directives so far
    pre,                    \* macro table before the last preprocessing step
    last,                   \* the last step: [op, name, a, b, s, defs, undefs,
                            \* nested, errs, warns]
    sentinel_absent,        \* CPU_SETSIZE was undefined just before the first
                            \* inclusion of the server header
    cpuset,                 \* bytes of the cpu_set_t instance, <<>> if none
    lastset,                \* index last passed to CPU_SET, -1 if none
    ret,                    \* value returned by the last invocation
    reads                   \* pointer arguments dereferenced by the last call

vars == <<macros, types, funcs, errors, sysroot, sysinc, sizeof_unsigned_long,
          phase, ndefines, pre, last, sentinel_absent, cpuset, lastset, ret, reads>>

(***************************************************************************)
(* Bounds of the model.                                                    *)
(***************************************************************************)
MaxDefines == 2

(***************************************************************************)
(* Names.                                                                  *)
(***************************************************************************)
StatNames == {"st_atime", "st_mtime", "st_ctime"}

SendfileNames == {"NGX_HAVE_SENDFILE", "NGX_HAVE_SENDFILE64"}

AffinityMacros == {"CPU_ZERO", "CPU_SET", "CPU_ISSET"}

\* Macros a foreign header may define before or between the inclusions.
EnvMacros ==
    StatNames \cup SendfileNames \cup AffinityMacros
        \cup {"CPU_SETSIZE", "HAVE_CRYPT", "_CRYPT_H"}

MacroNames == EnvMacros \cup {"__wasi__", "WASM_COMPAT_H", "_WASM_COMPAT_H"}

Headers == {"bash", "nginx"}

\* Sysroot headers the two headers include, and the sysroots considered:
\* one whose headers define none of the names the headers test, glibc with
\* its default feature macros, and glibc with _GNU_SOURCE.
SysHeaders == {"sys/stat.h", "sched.h", "string.h"}

Sysroots == {"bare", "glibc", "glibc_gnu"}

\* Widths of unsigned long on the targets considered (wasm32, wasm64/LP64).
SizeofUnsignedLong == {4, 8}

(***************************************************************************)
(* Preprocessor directives, acting on a translation-unit record            *)
(*   tu = [macros, types, funcs, errors, sysroot, sysinc,                  *)
(*         defs, undefs, nested, errs, warns].                             *)
(* defs and undefs log the names the header being included defined and     *)
(* undefined itself, nested the names the sysroot headers it includes      *)
(* defined, errs the errors and warns the redefinition warnings the        *)
(* inclusion raised.                                                       *)
(***************************************************************************)
Undefined == [def |-> FALSE, body |-> <<>>]

Macro(body) == [def |-> TRUE, body |-> body]

Defined(tab, m) == tab[m].def

\* #define m body : redefining m with a different body draws a warning
\* ("m" redefined); the unit still compiles, with the new body in effect.
Define(tu, m, body) ==
    LET bad == tu.macros[m].def /\ tu.macros[m].body # body
    IN  [tu EXCEPT !.macros[m] = Macro(body),
                   !.warns = IF bad THEN @ \cup {m} ELSE @,
                   !.defs = @ \cup {m}]

\* #undef m
Undef(tu, m) ==
    [tu EXCEPT !.macros[m] = Undefined, !.undefs = @ \cup {m}]

TypeNames(ts) == {t.name : t \in ts}

\* typedef struct {...} t; : t declared already, by the sysroot or by an
\* earlier pass over the header, is an error (conflicting types).
Typedef(tu, t) ==
    LET bad == t \in TypeNames(tu.types)
    IN  [tu EXCEPT !.types = @ \cup {[name |-> t, by |-> "header"]},
                   !.errors = IF bad THEN @ \cup {t} ELSE @,
                   !.errs = IF bad THEN @ \cup {t} ELSE @,
                   !.defs = @ \cup {t}]

\* A function definition: defining f twice is an error.
FunctionDef(tu, f) ==
    LET bad == f \in tu.funcs
    IN  [tu EXCEPT !.funcs = @ \cup {f},
                   !.errors = IF bad THEN @ \cup {f} ELSE @,
                   !.errs = IF bad THEN @ \cup {f} ELSE @,
                   !.defs = @ \cup {f}]

(***************************************************************************)
(* Bodies of the macros the headers define, as token sequences.            *)
(***************************************************************************)
CPU_SETSIZE == 1024

\* Variant: the access and modification times are swapped.
AliasBody_Swapped(n) ==
    CASE n = "st_atime" -> <<"st_mtim", ".", "tv_sec">>
      [] n = "st_mtime" -> <<"st_atim", ".", "tv_sec">>
      [] n = "st_ctime" -> <<"st_ctim", ".", "tv_sec">>

AliasBody(n) ==
    CASE n = "st_atime" -> <<"st_atim", ".", "tv_sec">>
      [] n = "st_mtime" -> <<"st_mtim", ".", "tv_sec">>
      [] n = "st_ctime" -> <<"st_ctim", ".", "tv_sec">>

ZeroBody == <<"memset", "(", "(", "set", ")", ",", "0", ",", "sizeof", "(", "cpu_set_t", ")", ")">>

SetBody == <<"(", "(", "void", ")", "0", ")">>

IssetBody == <<"(", "0", ")">>

ShimBody(m) ==
    CASE m = "CPU_ZERO" -> ZeroBody
      [] m = "CPU_SET" -> SetBody
      [] m = "CPU_ISSET" -> IssetBody

\* Body a foreign header gives a macro: never the body the headers give it.
EnvBody(m) ==
    IF m \in StatNames \cup AffinityMacros THEN <<"__sysroot_", m>>
    ELSE IF m = "CPU_SETSIZE" THEN <<"__CPU_SETSIZE">>
    ELSE IF m = "HAVE_CRYPT" THEN <<>>
    ELSE <<"1">>

(***************************************************************************)
(* The sysroot headers the two headers include.                            *)
(***************************************************************************)
\* Macros a sysroot header defines, among those the two headers test.
SysrootMacros(sr, hdr) ==
    IF hdr = "sys/stat.h" /\ sr \in {"glibc", "glibc_gnu"} THEN StatNames
    ELSE IF hdr = "sched.h" /\ sr = "glibc_gnu"
         THEN {"CPU_SETSIZE"} \cup AffinityMacros
    ELSE {}

\* Types a sysroot header declares, among those the two headers define.
SysrootTypes(sr, hdr) ==
    IF hdr = "sched.h" /\ sr \in {"glibc", "glibc_gnu"} THEN {"cpu_set_t"}
    ELSE {}

\* The bodies glibc's headers give: <sys/stat.h> gives the legacy names the
\* bodies the two headers give them; <sched.h> defines the affinity macros
\* through its __CPU_*_S macros.
SysrootBody(m) ==
    CASE m = "st_atime" -> <<"st_atim", ".", "tv_sec">>
      [] m = "st_mtime" -> <<"st_mtim", ".", "tv_sec">>
      [] m = "st_ctime" -> <<"st_ctim", ".", "tv_sec">>
      [] m = "CPU_SETSIZE" -> <<"__CPU_SETSIZE">>
      [] m = "CPU_ZERO" ->
           <<"__CPU_ZERO_S", "(", "sizeof", "(", "cpu_set_t", ")", ",",
             "cpusetp", ")">>
      [] m = "CPU_SET" ->
           <<"__CPU_SET_S", "(", "cpu", ",", "sizeof", "(", "cpu_set_t", ")",
             ",", "cpusetp", ")">>
      [] m = "CPU_ISSET" ->
           <<"__CPU_ISSET_S", "(", "cpu", ",", "sizeof", "(", "cpu_set_t",
             ")", ",", "cpusetp", ")">>

\* #include <hdr> : a no-op once hdr was included (its own guard);
\* otherwise hdr issues its #define lines unconditionally, replacing any
\* earlier definition of the same name (no diagnostic is raised for a
\* redefinition inside a system header), and declares its types.
SysInclude(tu, hdr) ==
    IF hdr \in tu.sysinc THEN tu
    ELSE LET ms == SysrootMacros(tu.sysroot, hdr)
             ts == SysrootTypes(tu.sysroot, hdr)
             bad == ts \cap TypeNames(tu.types)
         IN  [tu EXCEPT
                 !.sysinc = @ \cup {hdr},
                 !.macros = [m \in MacroNames |->
                               IF m \in ms THEN Macro(SysrootBody(m)) ELSE @[m]],
                 !.types = @ \cup {[name |-> t, by |-> "sysroot"] : t \in ts},
                 !.errors = @ \cup bad,
                 !.errs = @ \cup bad,
                 !.nested = @ \cup ms \cup ts]

(***************************************************************************)
(* The blocks of the headers.                                              *)
(***************************************************************************)
\* Variant: the #ifndef around the #define is missing.
StatAlias_Unguarded(tu, n) == Define(tu, n, AliasBody(n))

\* #ifndef n / #define n st_Xtim.tv_sec / #endif
StatAlias(tu, n) ==
    IF ~Defined(tu.macros, n) THEN Define(tu, n, AliasBody(n)) ELSE tu

StatAliases(tu) ==
    StatAlias(StatAlias(StatAlias(tu, "st_atime"), "st_mtime"), "st_ctime")

\* #ifdef m / #undef m / #endif
UndefIfDefined(tu, m) ==
    IF Defined(tu.macros, m) THEN Undef(tu, m) ELSE tu

\* Variant: the second macro is forgotten.
SendfileSuppress_FirstOnly(tu) == UndefIfDefined(tu, "NGX_HAVE_SENDFILE")

SendfileSuppress(tu) ==
    UndefIfDefined(UndefIfDefined(tu, "NGX_HAVE_SENDFILE"), "NGX_HAVE_SENDFILE64")

\* Variant: the #ifndef CPU_SETSIZE is missing.
AffinityType_Unguarded(tu) ==
    Typedef(Define(tu, "CPU_SETSIZE", <<ToString(CPU_SETSIZE)>>), "cpu_set_t")

\* #ifndef CPU_SETSIZE / #define CPU_SETSIZE 1024 / typedef ... cpu_set_t;
AffinityType(tu) ==
    IF ~Defined(tu.macros, "CPU_SETSIZE")
    THEN Typedef(Define(tu, "CPU_SETSIZE", <<ToString(CPU_SETSIZE)>>), "cpu_set_t")
    ELSE tu

\* #ifndef m / #define m(...) ... / #endif
AffinityMacro(tu, m) ==
    IF ~Defined(tu.macros, m) THEN Define(tu, m, ShimBody(m)) ELSE tu

AffinityShim(tu) ==
    AffinityMacro(AffinityMacro(AffinityMacro(AffinityType(tu),
        "CPU_ZERO"), "CPU_SET"), "CPU_ISSET")

\* Variant: only HAVE_CRYPT is tested.
CryptStub_IgnoresCryptH(tu) ==
    IF ~Defined(tu.macros, "HAVE_CRYPT")
    THEN Define(FunctionDef(tu, "crypt"), "HAVE_CRYPT", <<"1">>)
    ELSE tu

\* #if !defined(HAVE_CRYPT) && !defined(_CRYPT_H) / crypt / #define HAVE_CRYPT 1
CryptStub(tu) ==
    IF ~Defined(tu.macros, "HAVE_CRYPT") /\ ~Defined(tu.macros, "_CRYPT_H")
    THEN Define(FunctionDef(tu, "crypt"), "HAVE_CRYPT", <<"1">>)
    ELSE tu

Guard(h) == IF h = "bash" THEN "WASM_COMPAT_H" ELSE "_WASM_COMPAT_H"

\* Variant: no include guard.
GuardOpen_Always(tu, h) == TRUE

\* #ifndef GUARD : the body is processed only while the guard is undefined.
GuardOpen(tu, h) == ~Defined(tu.macros, Guard(h))

\* Variant: the shell header without its #ifdef __wasi__.
WasiGate_Always(tu) == TRUE

\* #ifdef __wasi__ of the shell header.
WasiGate(tu) == Defined(tu.macros, "__wasi__")

\* #ifdef __wasi__ / #include <sys/stat.h> / the three aliases / #endif
BashHeader(tu) ==
    IF GuardOpen(tu, "bash")
    THEN LET g == Define(tu, Guard("bash"), <<>>)
         IN  IF WasiGate(g) THEN StatAliases(SysInclude(g, "sys/stat.h")) ELSE g
    ELSE tu

\* guard, sendfile block, aliases, #include <sched.h>, #include <string.h>,
\* affinity shim, crypt stub
NginxHeader(tu) ==
    IF GuardOpen(tu, "nginx")
    THEN CryptStub(AffinityShim(SysInclude(SysInclude(
             StatAliases(SendfileSuppress(Define(tu, Guard("nginx"), <<>>))),
             "sched.h"), "string.h")))
    ELSE tu

Header(tu, h) == IF h = "bash" THEN BashHeader(tu) ELSE NginxHeader(tu)

(***************************************************************************)
(* What the headers define, as the compiled program executes it.           *)
(***************************************************************************)
\* Variant: the bits per byte are forgotten in the divisor.
BitsLen_Bytes(sz) == CPU_SETSIZE \div sz

\* unsigned long __bits[CPU_SETSIZE / (8 * sizeof(unsigned long))];
BitsLen(sz) == CPU_SETSIZE \div (8 * sz)

\* sizeof(cpu_set_t): the struct holds the array and nothing else.
SizeofCpuSet(sz) == BitsLen(sz) * sz

\* memset(s, c, n): the first n bytes of s become c.
memset(s, c, n) == [i \in 1..Len(s) |-> IF i <= n THEN c ELSE s[i]]

\* sizeof(cpu_set_t) of the type in effect: the header's, or glibc's
\* (1024 bits).
SizeofType(ts, sz) ==
    IF [name |-> "cpu_set_t", by |-> "header"] \in ts
    THEN SizeofCpuSet(sz)
    ELSE 1024 \div 8

\* #define CPU_ZERO(set) memset((set), 0, sizeof(cpu_set_t))
CPU_ZERO(set, size) == memset(set, 0, size)

\* #define CPU_SET(cpu, set) ((void)0)
CPU_SET(cpu, set) == set

\* Variant: a faithful test of bit cpu.
CPU_ISSET_TestsBit(cpu, set) ==
    IF cpu \div 8 < Len(set)
    THEN (set[(cpu \div 8) + 1] \div (2 ^ (cpu % 8))) % 2
    ELSE 0

\* #define CPU_ISSET(cpu, set) (0)
CPU_ISSET(cpu, set) == 0

\* The sysroot's macros, when <sched.h> defines them: bit cpu of the set
\* is cleared, set and tested (bit cpu is bit cpu % 8 of byte cpu / 8).
BitOf(cpu, set) == (set[(cpu \div 8) + 1] \div (2 ^ (cpu % 8))) % 2

Sysroot_CPU_ZERO(set, size) == memset(set, 0, size)

Sysroot_CPU_SET(cpu, set) ==
    IF cpu \div 8 < Len(set) /\ BitOf(cpu, set) = 0
    THEN [set EXCEPT ![(cpu \div 8) + 1] = @ + 2 ^ (cpu % 8)]
    ELSE set

Sysroot_CPU_ISSET(cpu, set) ==
    IF cpu \div 8 < Len(set) THEN BitOf(cpu, set) ELSE 0

\* (char *)0
NULL == 0

\* Variant: the stub hands the key back after reading it.
crypt_ReturnsKey(key, salt) == [ret |-> key, reads |-> {key}]

\* static inline char *crypt(const char *key, const char *salt):
\* the value returned and the pointer arguments it dereferences.
crypt(key, salt) == [ret |-> NULL, reads |-> {}]

\* s.<body> for a macro body of the form  field . member
IsMemberPath(s, body) ==
    /\ Len(body) = 3
    /\ body[2] = "."
    /\ body[1] \in DOMAIN s
    /\ body[3] \in DOMAIN s[body[1]]

Member(s, body) == s[body[1]][body[3]]

(***************************************************************************)
(* Inputs of the invocations.                                              *)
(***************************************************************************)
\* Contents of the cpu_set_t instance the macros are applied to, byte by
\* byte: all bits clear, all bits set, only the lowest bit set, only the
\* highest bit set, alternating bytes, and bytes that all differ from their
\* neighbours.
InstanceBytes(size) ==
    { [i \in 1..size |-> 0],
      [i \in 1..size |-> 255],
      [i \in 1..size |-> IF i = 1 THEN 1 ELSE 0],
      [i \in 1..size |-> IF i = size THEN 128 ELSE 0],
      [i \in 1..size |-> IF i % 2 = 1 THEN 170 ELSE 85],
      [i \in 1..size |-> (37 * i + 11) % 256] }

CpuIndices == {0, CPU_SETSIZE - 1}

\* Pointer arguments of crypt: the null pointer and the address of an
\* empty string.
Pointers == {NULL, 16}

Stat(a, m, c) ==
    [st_atim |-> [tv_sec |-> a, tv_nsec |-> a + 100],
     st_mtim |-> [tv_sec |-> m, tv_nsec |-> m + 100],
     st_ctim |-> [tv_sec |-> c, tv_nsec |-> c + 100]]

StatValues == {Stat(11, 22, 33)}

(***************************************************************************)
(* The state machine.                                                      *)
(***************************************************************************)
NoStat == Stat(0, 0, 0)

Event(op, name, a, b, s, tu) ==
    [op |-> op, name |-> name, a |-> a, b |-> b, s |-> s,
     defs |-> tu.defs, undefs |-> tu.undefs, nested |-> tu.nested,
     errs |-> tu.errs, warns |-> tu.warns]

\* An event that defines nothing.
Quiet ==
    [defs |-> {}, undefs |-> {}, nested |-> {}, errs |-> {}, warns |-> {}]

\* The translation unit as the directives see it, its logs empty.
Unit ==
    [macros |-> macros, types |-> types, funcs |-> funcs, errors |-> errors,
     sysroot |-> sysroot, sysinc |-> sysinc,
     defs |-> {}, undefs |-> {}, nested |-> {}, errs |-> {}, warns |-> {}]

\* The compiler predefines __wasi__ on the WASI target and not elsewhere;
\* every other macro starts undefined.
Init ==
    /\ \E w \in BOOLEAN :
         macros = [m \in MacroNames |->
                     IF m = "__wasi__" /\ w THEN Macro(<<"1">>) ELSE Undefined]
    /\ types = {}
    /\ funcs = {}
    /\ errors = {}
    /\ sysroot \in Sysroots
    /\ sysinc = {}
    /\ sizeof_unsigned_long \in SizeofUnsignedLong
    /\ phase = "cpp"
    /\ ndefines = 0
    /\ pre = macros
    /\ last = Event("start", "", 0, 0, NoStat, Quiet)
    /\ sentinel_absent = FALSE
    /\ cpuset = <<>>
    /\ lastset = -1
    /\ ret = 0
    /\ reads = {}

\* A foreign header defines a macro that is not defined yet.
EnvDefine(m) ==
    /\ phase = "cpp"
    /\ ndefines < MaxDefines
    /\ ~Defined(macros, m)
    /\ pre' = macros
    /\ macros' = [macros EXCEPT ![m] = Macro(EnvBody(m))]
    /\ ndefines' = ndefines + 1
    /\ last' = Event("define", m, 0, 0, NoStat, [Quiet EXCEPT !.nested = {m}])
    /\ UNCHANGED <<types, funcs, errors, sysroot, sysinc, sizeof_unsigned_long,
                   phase, sentinel_absent, cpuset, lastset, ret, reads>>

\* The host program includes a sysroot header itself, one whose macros the
\* headers test.
EnvInclude(hdr) ==
    /\ phase = "cpp"
    /\ hdr \notin sysinc
    /\ hdr # "string.h"
    /\ LET tu == SysInclude(Unit, hdr)
       IN  /\ macros' = tu.macros
           /\ types' = tu.types
           /\ errors' = tu.errors
           /\ sysinc' = tu.sysinc
           /\ last' = Event("sysinclude", hdr, 0, 0, NoStat, tu)
    /\ pre' = macros
    /\ UNCHANGED <<funcs, sysroot, sizeof_unsigned_long, phase, ndefines,
                   sentinel_absent, cpuset, lastset, ret, reads>>

\* #include of one of the two headers (-include, or an #include directive).
Include(h) ==
    /\ phase = "cpp"
    /\ LET tu == Header(Unit, h)
       IN  /\ macros' = tu.macros
           /\ types' = tu.types
           /\ funcs' = tu.funcs
           /\ errors' = tu.errors
           /\ sysinc' = tu.sysinc
           /\ last' = Event("include", h, 0, 0, NoStat, tu)
    /\ pre' = macros
    /\ sentinel_absent' =
           IF h = "nginx" /\ ~Defined(macros, Guard("nginx"))
           THEN ~Defined(macros, "CPU_SETSIZE")
           ELSE sentinel_absent
    /\ UNCHANGED <<sysroot, sizeof_unsigned_long, phase, ndefines,
                   cpuset, lastset, ret, reads>>

\* End of the translation unit: a program results if nothing was in error.
\* The record of included files and the count of foreign definitions are
\* the preprocessor's and end with it.
Compile ==
    /\ phase = "cpp"
    /\ errors = {}
    /\ phase' = "run"
    /\ pre' = macros
    /\ last' = Event("compile", "", 0, 0, NoStat, Quiet)
    /\ sysinc' = {}
    /\ ndefines' = 0
    /\ UNCHANGED <<macros, types, funcs, errors, sysroot,
                   sizeof_unsigned_long, sentinel_absent,
                   cpuset, lastset, ret, reads>>

\* cpu_set_t set; memcpy(&set, b, sizeof set);  an instance of the type in
\* effect holding the bytes b.
Instance(b) ==
    /\ phase = "run"
    /\ "cpu_set_t" \in TypeNames(types)
    /\ cpuset = <<>>
    /\ cpuset' = b
    /\ last' = Event("instance", "cpu_set_t", 0, 0, NoStat, Quiet)
    /\ UNCHANGED <<macros, types, funcs, errors, sysroot, sysinc,
                   sizeof_unsigned_long, phase, ndefines, pre, sentinel_absent,
                   lastset, ret, reads>>

\* The header's macro m is the one an invocation of m expands to.
ShimInEffect(m) == macros[m] = Macro(ShimBody(m))

\* CPU_ZERO(&set);
CallCPU_ZERO ==
    /\ phase = "run"
    /\ cpuset # <<>>
    /\ Defined(macros, "CPU_ZERO")
    /\ cpuset' = IF ShimInEffect("CPU_ZERO")
                 THEN CPU_ZERO(cpuset, SizeofType(types, sizeof_unsigned_long))
                 ELSE Sysroot_CPU_ZERO(cpuset, SizeofType(types, sizeof_unsigned_long))
    /\ lastset' = -1
    /\ last' = Event("CPU_ZERO", "", 0, 0, NoStat, Quiet)
    /\ UNCHANGED <<macros, types, funcs, errors, sysroot, sysinc,
                   sizeof_unsigned_long, phase, ndefines, pre, sentinel_absent,
                   ret, reads>>

\* CPU_SET(cpu, &set);
CallCPU_SET(cpu) ==
    /\ phase = "run"
    /\ cpuset # <<>>
    /\ Defined(macros, "CPU_SET")
    /\ cpuset' = IF ShimInEffect("CPU_SET")
                 THEN CPU_SET(cpu, cpuset)
                 ELSE Sysroot_CPU_SET(cpu, cpuset)
    /\ lastset' = cpu
    /\ last' = Event("CPU_SET", "", cpu, 0, NoStat, Quiet)
    /\ UNCHANGED <<macros, types, funcs, errors, sysroot, sysinc,
                   sizeof_unsigned_long, phase, ndefines, pre, sentinel_absent,
                   ret, reads>>

\* r = CPU_ISSET(cpu, &set);
CallCPU_ISSET(cpu) ==
    /\ phase = "run"
    /\ cpuset # <<>>
    /\ Defined(macros, "CPU_ISSET")
    /\ ret' = IF ShimInEffect("CPU_ISSET")
              THEN CPU_ISSET(cpu, cpuset)
              ELSE Sysroot_CPU_ISSET(cpu, cpuset)
    /\ reads' = {}
    /\ last' = Event("CPU_ISSET", "", cpu, 0, NoStat, Quiet)
    /\ UNCHANGED <<macros, types, funcs, errors, sysroot, sysinc,
                   sizeof_unsigned_long, phase, ndefines, pre, sentinel_absent,
                   cpuset, lastset>>

\* r = crypt(key, salt);  with the stub the server header defined
CallCrypt(key, salt) ==
    /\ phase = "run"
    /\ "crypt" \in funcs
    /\ ret' = crypt(key, salt).ret
    /\ reads' = crypt(key, salt).reads
    /\ last' = Event("crypt", "", key, salt, NoStat, Quiet)
    /\ UNCHANGED <<macros, types, funcs, errors, sysroot, sysinc,
                   sizeof_unsigned_long, phase, ndefines, pre, sentinel_absent,
                   cpuset, lastset>>

\* r = s.n;  where the legacy name n expands to its macro body
ReadStat(n, s) ==
    /\ phase = "run"
    /\ Defined(macros, n)
    /\ IsMemberPath(s, macros[n].body)
    /\ ret' = Member(s, macros[n].body)
    /\ reads' = {}
    /\ last' = Event("stat", n, 0, 0, s, Quiet)
    /\ UNCHANGED <<macros, types, funcs, errors, sysroot, sysinc,
                   sizeof_unsigned_long, phase, ndefines, pre, sentinel_absent,
                   cpuset, lastset>>

Next ==
    \/ \E m \in EnvMacros : EnvDefine(m)
    \/ \E hdr \in SysHeaders : EnvInclude(hdr)
    \/ \E h \in Headers : Include(h)
    \/ Compile
    \/ \E b \in InstanceBytes(SizeofType(types, sizeof_unsigned_long)) :
           Instance(b)
    \/ CallCPU_ZERO
    \/ \E cpu \in CpuIndices : CallCPU_SET(cpu)
    \/ \E cpu \in CpuIndices : CallCPU_ISSET(cpu)
    \/ \E key \in Pointers, salt \in Pointers : CallCrypt(key, salt)
    \/ \E n \in StatNames, s \in StatValues : ReadStat(n, s)

Spec == Init /\ [][Next]_vars
(***************************************************************************)
(* Properties.  pre is the macro table before the last preprocessing step; *)
(* last.defs / last.undefs are what the header included last defined and   *)
(* undefined itself, last.nested what the sysroot headers it includes      *)
(* defined, so "immediately after an inclusion" is last.op = "include".    *)
(***************************************************************************)
Included(h) == last.op = "include" /\ last.name = h

FirstInclusion(h) == Included(h) /\ ~Defined(pre, Guard(h))

\* The timespec field a legacy name stands for.
OwnTimespec(n) ==
    CASE n = "st_atime" -> "st_atim"
      [] n = "st_mtime" -> "st_mtim"
      [] n = "st_ctime" -> "st_ctim"

OwnAlias(n) == Macro(<<OwnTimespec(n), ".", "tv_sec">>)

\* The shell header's aliasing block is gated by __wasi__, the server's is not.
AliasingProcessed(h) == h = "nginx" \/ Defined(pre, "__wasi__")

HeaderType == [name |-> "cpu_set_t", by |-> "header"]

\* m is still undefined when the header included last tests it: it was not
\* defined before the inclusion, nor by a sysroot header the header includes.
AbsentAtTest(m) == ~Defined(pre, m) /\ m \notin last.nested

\* The affinity type and the three macros in effect are the header's.
ShimActive ==
    HeaderType \in types /\ \A m \in AffinityMacros : ShimInEffect(m)

\* C1 as stated: immediately after ANY inclusion of the server header both
\* NGX_HAVE_SENDFILE and NGX_HAVE_SENDFILE64 are undefined.
C1_SendfileUndefinedAfterAnyInclusion ==
    Included("nginx") =>
        \A m \in SendfileNames : ~Defined(macros, m)

\* C1 amended: immediately after the first inclusion of the server header
\* (its guard not yet defined) both macros are undefined, whatever was
\* defined before; a later inclusion leaves both as they were.
C1_SendfileUndefinedAfterFirstInclusion ==
    /\ FirstInclusion("nginx") =>
           \A m \in SendfileNames : ~Defined(macros, m)
    /\ Included("nginx") /\ Defined(pre, Guard("nginx")) =>
           \A m \in SendfileNames : macros[m] = pre[m]

\* Both macros were defined by another header before the first inclusion.
C1_Witness ==
    /\ FirstInclusion("nginx")
    /\ \A m \in SendfileNames : Defined(pre, m) /\ ~Defined(macros, m)

\* C2: included with neither HAVE_CRYPT nor _CRYPT_H defined, the server
\* header defines crypt and HAVE_CRYPT as 1; crypt returns the null pointer
\* for every pair of arguments and dereferences neither.
C2_CryptStubFailsClosed ==
    /\ Included("nginx") /\ ~Defined(pre, "HAVE_CRYPT") /\ ~Defined(pre, "_CRYPT_H") =>
           /\ macros["HAVE_CRYPT"] = Macro(<<"1">>)
           /\ "crypt" \in funcs
    /\ last.op = "crypt" => ret = 0 /\ reads = {}

\* The stub is called with a null key and a non-null salt.
C2_Witness ==
    /\ last.op = "crypt"
    /\ last.a = 0
    /\ last.b # 0
    /\ ret = 0
    /\ macros["HAVE_CRYPT"] = Macro(<<"1">>)

\* C3 as stated: when the legacy names are not defined at the inclusion
\* point, after inclusion of EITHER header each legacy name aliases the
\* seconds of its own timespec field.
C3_AliasesAfterEitherHeader ==
    last.op = "include" /\ (\A n \in StatNames : ~Defined(pre, n)) =>
        \A n \in StatNames : macros[n] = OwnAlias(n)

\* C3 amended: after inclusion of the server header, or of the shell header
\* on a build that defines __wasi__, each legacy name that was not defined
\* aliases the seconds of its own timespec field and no other, and reading
\* the legacy name yields the number the direct timespec read yields.
C3_AliasesOwnTimespecSeconds ==
    /\ last.op = "include" /\ AliasingProcessed(last.name) =>
           \A n \in StatNames : ~Defined(pre, n) => macros[n] = OwnAlias(n)
    /\ last.op = "stat" =>
           ret = last.s[OwnTimespec(last.name)].tv_sec

\* st_mtime, defined by the server header, is read on a value whose three
\* times differ.
C3_Witness ==
    /\ last.op = "stat"
    /\ last.name = "st_mtime"
    /\ sysroot = "bare"
    /\ macros["st_mtime"] = OwnAlias("st_mtime")
    /\ ret = last.s.st_mtim.tv_sec
    /\ ret # last.s.st_atim.tv_sec
    /\ ret # last.s.st_ctim.tv_sec

\* C4 as stated: a legacy name already defined when EITHER header is
\* included keeps its definition and gets no #define, while the names that
\* are absent are still defined.
C4_NoOpForDefinedNamesEitherHeader ==
    last.op = "include" =>
        \A n \in StatNames : Defined(pre, n) =>
            /\ macros[n] = pre[n]
            /\ n \notin last.defs
            /\ \A a \in StatNames : ~Defined(pre, a) => Defined(macros, a)

\* C4 amended: a legacy name already defined when either header is included
\* gets no #define from the header and stays defined; it keeps its
\* definition unless the <sys/stat.h> the shell header includes under
\* __wasi__ defines the name itself, and then it has that header's
\* definition.  The absent names are defined after inclusion of the server
\* header, and of the shell header when __wasi__ is defined.
C4_NoOpForDefinedNames ==
    last.op = "include" =>
        \A n \in StatNames : Defined(pre, n) =>
            /\ n \notin last.defs
            /\ Defined(macros, n)
            /\ n \notin last.nested => macros[n] = pre[n]
            /\ n \in last.nested =>
                   /\ Included("bash") /\ Defined(pre, "__wasi__")
                   /\ macros[n] = Macro(SysrootBody(n))
            /\ AliasingProcessed(last.name) =>
                   \A a \in StatNames : ~Defined(pre, a) => Defined(macros, a)

\* st_mtime came from another header, st_atime is absent: the first
\* inclusion of the server header defines st_atime and keeps st_mtime.
C4_Witness ==
    /\ FirstInclusion("nginx")
    /\ pre["st_mtime"] = Macro(EnvBody("st_mtime"))
    /\ macros["st_mtime"] = Macro(EnvBody("st_mtime"))
    /\ ~Defined(pre, "st_atime")
    /\ "st_atime" \in last.defs

\* C5 as stated: once the server header was included with CPU_SETSIZE
\* absent before the inclusion, CPU_ISSET returns 0 for every index,
\* CPU_SET changes no byte of the instance and CPU_ZERO leaves every byte
\* zero.
C5_ShimWheneverSentinelAbsentBefore ==
    [][ sentinel_absent' =>
          /\ last'.op = "CPU_ISSET" => ret' = 0
          /\ last'.op = "CPU_SET" => cpuset' = cpuset
          /\ last'.op = "CPU_ZERO" =>
                 \A i \in 1..Len(cpuset') : cpuset'[i] = 0 ]_vars

\* C5 amended: when CPU_SETSIZE and the three macros are still undefined at
\* the header's own #ifndef tests (not defined before the inclusion and not
\* by the <sched.h> the header includes first), the type and the macros in
\* effect are the header's; and with those, CPU_ISSET returns 0 for every
\* index, CPU_SET changes no byte and CPU_ZERO leaves every byte zero.
C5_AffinityShimNeverRecords ==
    [][ /\ ( /\ FirstInclusion("nginx")'
             /\ \A m \in {"CPU_SETSIZE"} \cup AffinityMacros :
                    ~Defined(pre', m) /\ m \notin last'.nested )
           => ShimActive'
        /\ ShimActive' =>
             /\ last'.op = "CPU_ISSET" => ret' = 0
             /\ last'.op = "CPU_SET" => cpuset' = cpuset
             /\ last'.op = "CPU_ZERO" =>
                    \A i \in 1..Len(cpuset') : cpuset'[i] = 0 ]_vars

\* CPU_ISSET is asked about the index just passed to CPU_SET, with the
\* header's macros in effect, on an instance whose bytes differ from one
\* another and in which the bit of that index is set.
C5_Witness ==
    /\ ShimActive
    /\ last.op = "CPU_ISSET"
    /\ last.a = lastset
    /\ ret = 0
    /\ cpuset # <<>>
    /\ BitOf(last.a, cpuset) = 1
    /\ \E i, j \in 1..Len(cpuset) : cpuset[i] # 0 /\ cpuset[j] # cpuset[i]

\* C6: the first inclusion of a header defines its guard; an inclusion that
\* finds the guard defined skips the body: it defines and undefines
\* nothing, includes no sysroot header, raises no redefinition (of a macro,
\* of cpu_set_t, of crypt) and leaves the macro table as it was.  No
\* inclusion, first or later, redefines a macro with another body.
C6_SecondInclusionIsNoOp ==
    last.op = "include" =>
        /\ last.warns = {}
        /\ Defined(macros, Guard(last.name))
        /\ ~Defined(pre, Guard(last.name)) => Guard(last.name) \in last.defs
        /\ Defined(pre, Guard(last.name)) =>
               /\ macros = pre
               /\ last.defs = {}
               /\ last.undefs = {}
               /\ last.nested = {}
               /\ last.errs = {}

\* The server header is included again after another header defined
\* NGX_HAVE_SENDFILE, which the body would undefine were it processed.
C6_Witness ==
    /\ Included("nginx")
    /\ Defined(pre, Guard("nginx"))
    /\ Defined(macros, "NGX_HAVE_SENDFILE")
    /\ "crypt" \in funcs
    /\ HeaderType \in types

\* C7 as stated: if CPU_SETSIZE is defined when the server header is
\* included, the inclusion defines none of cpu_set_t, CPU_ZERO, CPU_SET and
\* CPU_ISSET.
C7_SentinelGatesWholeShim ==
    Included("nginx") /\ Defined(pre, "CPU_SETSIZE") =>
        last.defs \cap ({"cpu_set_t"} \cup AffinityMacros) = {}

\* C7 amended: if CPU_SETSIZE is defined when the server header is
\* included, the inclusion defines neither CPU_SETSIZE nor cpu_set_t; each
\* of CPU_ZERO, CPU_SET and CPU_ISSET is guarded by its own absence alone,
\* so the first inclusion defines exactly those of the three that are still
\* undefined at their #ifndef; a name the included <sched.h> defines has
\* that header's definition, and any other keeps the one it had.
C7_SentinelGatesTypeOnly ==
    Included("nginx") /\ Defined(pre, "CPU_SETSIZE") =>
        /\ "cpu_set_t" \notin last.defs
        /\ "CPU_SETSIZE" \notin last.defs
        /\ "CPU_SETSIZE" \notin last.nested =>
               macros["CPU_SETSIZE"] = pre["CPU_SETSIZE"]
        /\ \A m \in {"CPU_SETSIZE"} \cup AffinityMacros :
               m \in last.nested => macros[m] = Macro(SysrootBody(m))
        /\ \A m \in AffinityMacros :
               /\ m \in last.defs <=>
                      AbsentAtTest(m) /\ ~Defined(pre, Guard("nginx"))
               /\ Defined(pre, m) /\ m \notin last.nested =>
                      macros[m] = pre[m]
               /\ m \in last.defs => macros[m] = Macro(ShimBody(m))

\* CPU_SETSIZE and CPU_SET are defined but not CPU_ZERO: the inclusion
\* defines CPU_ZERO and CPU_ISSET and no type.
C7_Witness ==
    /\ Included("nginx")
    /\ Defined(pre, "CPU_SETSIZE")
    /\ Defined(pre, "CPU_SET")
    /\ "CPU_ZERO" \in last.defs
    /\ "CPU_ISSET" \in last.defs
    /\ "CPU_SET" \notin last.defs
    /\ HeaderType \notin types

\* C8: if HAVE_CRYPT or _CRYPT_H is defined when the server header is
\* included, the inclusion defines no crypt function and leaves HAVE_CRYPT
\* defined or undefined, and its value, exactly as it was.
C8_CryptStubOnlyWhenAbsent ==
    Included("nginx") /\ (Defined(pre, "HAVE_CRYPT") \/ Defined(pre, "_CRYPT_H")) =>
        /\ "crypt" \notin last.defs
        /\ "HAVE_CRYPT" \notin last.defs
        /\ "HAVE_CRYPT" \notin last.undefs
        /\ "HAVE_CRYPT" \notin last.nested
        /\ macros["HAVE_CRYPT"] = pre["HAVE_CRYPT"]

\* First inclusion with _CRYPT_H defined and HAVE_CRYPT not: the body is
\* processed, no stub is defined and HAVE_CRYPT stays undefined.
C8_Witness ==
    /\ FirstInclusion("nginx")
    /\ Defined(pre, "_CRYPT_H")
    /\ ~Defined(pre, "HAVE_CRYPT")
    /\ ~Defined(macros, "HAVE_CRYPT")
    /\ "crypt" \notin funcs
    /\ "cpu_set_t" \in last.defs

\* C9 as stated: in BOTH headers the aliases are gated by __wasi__: without
\* it an inclusion defines none of the legacy names, with it each absent
\* legacy name is defined.
C9_BothHeadersGatedByWasi ==
    last.op = "include" =>
        /\ ~Defined(pre, "__wasi__") => last.defs \cap StatNames = {}
        /\ Defined(pre, "__wasi__") =>
               \A n \in StatNames : ~Defined(pre, n) => Defined(macros, n)

\* C9 amended: only the shell header gates the aliases by __wasi__: without
\* it the shell header defines none of the legacy names (and includes no
\* <sys/stat.h>), with it each absent legacy name is defined; the server
\* header defines each absent legacy name whether or not __wasi__ is
\* defined.
C9_OnlyShellHeaderGatedByWasi ==
    /\ Included("bash") /\ ~Defined(pre, "__wasi__") =>
           /\ last.defs \cap StatNames = {}
           /\ last.nested = {}
           /\ \A n \in StatNames : macros[n] = pre[n]
    /\ Included("bash") /\ Defined(pre, "__wasi__") =>
           \A n \in StatNames : ~Defined(pre, n) => Defined(macros, n)
    /\ Included("nginx") =>
           \A n \in StatNames : ~Defined(pre, n) =>
               n \in last.defs /\ Defined(macros, n)

\* Without __wasi__ the first inclusion of the shell header processes its
\* body (the guard gets defined) and leaves an absent legacy name absent.
C9_Witness ==
    /\ FirstInclusion("bash")
    /\ ~Defined(macros, "__wasi__")
    /\ ~Defined(macros, "st_atime")
    /\ last.defs = {Guard("bash")}

\* C10 as stated: when CPU_SETSIZE is absent before the inclusion of the
\* server header, the header defines CPU_SETSIZE as 1024 and a cpu_set_t
\* of exactly 1024 bits.
C10_ShimWheneverSentinelAbsentBefore ==
    FirstInclusion("nginx") /\ ~Defined(pre, "CPU_SETSIZE") =>
        /\ macros["CPU_SETSIZE"] = Macro(<<"1024">>)
        /\ HeaderType \in types
        /\ SizeofCpuSet(sizeof_unsigned_long) * 8 = 1024

\* C10 amended: when CPU_SETSIZE is still undefined at the header's
\* #ifndef CPU_SETSIZE (not defined before the inclusion and not by the
\* <sched.h> the header includes first), the header defines CPU_SETSIZE as
\* 1024 and a cpu_set_t whose __bits array holds
\* CPU_SETSIZE / (8 * sizeof(unsigned long)) elements; element count times
\* bits per element is exactly 1024 for unsigned long of 4 and of 8 bytes,
\* the division leaving no remainder.
C10_CapacityIs1024Bits ==
    /\ FirstInclusion("nginx") /\ AbsentAtTest("CPU_SETSIZE") =>
           /\ "CPU_SETSIZE" \in last.defs
           /\ "cpu_set_t" \in last.defs
           /\ HeaderType \in types
    /\ HeaderType \in types =>
           /\ macros["CPU_SETSIZE"] = Macro(<<"1024">>)
           /\ \A sz \in {4, 8} :
                  /\ BitsLen(sz) * (8 * sz) = 1024
                  /\ 1024 % (8 * sz) = 0
           /\ SizeofCpuSet(sizeof_unsigned_long) * 8 = 1024
           /\ cpuset # <<>> => Len(cpuset) * 8 = 1024

\* An instance of the header's type exists on a target with 8-byte
\* unsigned long.
C10_Witness ==
    /\ HeaderType \in types
    /\ sizeof_unsigned_long = 8
    /\ cpuset # <<>>
    /\ Len(cpuset) = 128
====
